---------------------------- MODULE Spec2Model ----------------------------
(***************************************************************************)
(* A model of the loggo logging library: the level gate, the message       *)
(* formatter, the fan-out writer, the hook registry, the worker pool that  *)
(* runs hook-dispatch jobs, and Close.                                     *)
(*                                                                         *)
(* Text is modelled as TLA+ strings built with \o.  A format string is a   *)
(* sequence of tokens, each a literal piece of text or a verb ("%d", "%s", *)
(* "%v"); an argument is a record [kind, text] giving its dynamic type and *)
(* its decimal / textual rendering.                                        *)
(*                                                                         *)
(* The worker pool is the one of the later revision of the library (the    *)
(* pool with the `stopped` flag, which also closes the job channel).       *)
(***************************************************************************)
EXTENDS Integers, Sequences, FiniteSets, Bags, TLC

-----------------------------------------------------------------------------
(* Levels: Level is an int, DEBUG = iota ... PANIC.                        *)

DEBUG == 0
INFO == 1
WARN == 2
ERROR == 3
CRITICAL == 4
FATAL == 5
PANIC == 6

Levels == DEBUG .. PANIC

colorReset == "\\033[0m"
colorRed == "\\033[31m"
colorGreen == "\\033[32m"
colorYellow == "\\033[33m"
colorCyan == "\\033[36m"

levelColors(l) ==
  CASE l = DEBUG -> colorCyan
    [] l = INFO -> colorGreen
    [] l = WARN -> colorYellow
    [] OTHER -> colorRed

paddedLevelStrings(l) ==
  CASE l = DEBUG -> "[DEBUG]"
    [] l = INFO -> "[INFO] "
    [] l = WARN -> "[WARN] "
    [] l = ERROR -> "[ERROR]"
    [] l = CRITICAL -> "[CRIT] "
    [] l = FATAL -> "[FATAL]"
    [] l = PANIC -> "[PANIC]"

PaddedString(l) == IF l \in Levels THEN paddedLevelStrings(l) ELSE "[UNKNOWN]"

-----------------------------------------------------------------------------
(* Bounds of the model.                                                    *)

\* emissions that pass the gate, per behaviour (they carry the ids 1..MaxEmits)
MaxEmits == 2
\* clock ticks per behaviour
MaxTicks == 1

-----------------------------------------------------------------------------
(* Program constants.                                                      *)

\* New(): maxHooks: 100
maxHooks == 100
\* New(): newWorkerPool(10) gives a queue of workers*2 jobs; the model runs
\* the pool with the workers of the set Workers
Workers == {"w1", "w2"}
QueueCap == Cardinality(Workers) * 2

Callers == {"c1", "c2"}
NoOne == "none"

\* the destinations a test can hand to SetOutputs; "bad" is a writer whose
\* Write may return an error
Dests == {"stdout", "d1", "bad"}
FailingDests == {"bad"}

-----------------------------------------------------------------------------
(* fmt.Sprintf / fmt.Appendf on the token representation.                  *)

Verbs == {"%d", "%s", "%v"}

\* the rendering of one operand under one verb (fmt's bad-verb form
\* %!verb(type=value) when the verb does not apply to the operand's type)
fmtVerb(verb, arg) ==
  CASE verb = "%v" -> arg.text
    [] verb = "%d" ->
         IF arg.kind \in {"int", "int64"} THEN arg.text
         ELSE "%!d(" \o arg.kind \o "=" \o arg.text \o ")"
    [] verb = "%s" ->
         IF arg.kind \in {"string", "error"} THEN arg.text
         ELSE "%!s(" \o arg.kind \o "=" \o arg.text \o ")"

RECURSIVE fmtExtra(_, _)
\* the operands left over after the format is exhausted: "type=value, ..."
fmtExtra(args, k) ==
  IF k > Len(args) THEN ""
  ELSE args[k].kind \o "=" \o args[k].text
       \o (IF k < Len(args) THEN ", " ELSE "") \o fmtExtra(args, k + 1)

RECURSIVE doPrintf(_, _, _, _)
\* fmt's doPrintf from token i of the format with operand k next
doPrintf(format, args, i, k) ==
  IF i > Len(format)
  THEN IF k <= Len(args) THEN "%!(EXTRA " \o fmtExtra(args, k) \o ")" ELSE ""
  ELSE IF format[i] \in Verbs
       THEN IF k <= Len(args)
            THEN fmtVerb(format[i], args[k]) \o doPrintf(format, args, i + 1, k + 1)
            ELSE "%!" \o SubSeq(format[i], 2, 2) \o "(MISSING)"
                 \o doPrintf(format, args, i + 1, k)
       ELSE format[i] \o doPrintf(format, args, i + 1, k)

Sprintf(format, args) == doPrintf(format, args, 1, 1)

RECURSIVE Flat(_)
\* the bytes of a format string: its tokens, concatenated
Flat(format) == IF format = <<>> THEN "" ELSE Head(format) \o Flat(Tail(format))

\* event.msgf, the message body appended to the buffer
msgfBody(format, args) ==
  IF Len(args) = 0 THEN Flat(format)
  ELSE IF Len(args) = 1
       THEN IF args[1].kind \in {"string", "int", "int64", "float64", "error"}
            THEN args[1].text
            ELSE Sprintf(format, args)
       ELSE Sprintf(format, args)

\* a faulty header without the space between the reset and the timestamp
msgfHeaderNoSpace(lv, timestamp) ==
  levelColors(lv) \o PaddedString(lv) \o colorReset \o timestamp \o ": "

\* event.msgf, the header "%s%s%s %s: "
msgfHeader(lv, timestamp) ==
  levelColors(lv) \o PaddedString(lv) \o colorReset \o " " \o timestamp \o ": "

\* event.msgf, the whole line handed to the writer
msgfLine(lv, timestamp, format, args) ==
  msgfHeader(lv, timestamp) \o msgfBody(format, args) \o "\n"

\* a faulty gate that also drops a message at the threshold itself
newEventDropsAtThreshold(lv, threshold) == lv <= threshold

\* a faulty msgf that hands the hooks the body it wrote
hookMessageFromBuffer(format, args) == msgfBody(format, args)

\* event.msgf, the message handed to the hooks
hookMessage(format, args) == Sprintf(format, args)

\* a faulty gate that lets every level through
newEventDropsNothing(lv, threshold) == lv < DEBUG

\* a faulty gate that lets FATAL and PANIC through whatever the threshold
newEventDropsBelowFatal(lv, threshold) == lv < threshold /\ lv < FATAL

\* Logger.newEvent: the gate (a nil event is returned, and msgf returns at once)
newEventDrops(lv, threshold) == lv < threshold

-----------------------------------------------------------------------------
(* The hook registry.                                                      *)

\* the callbacks a caller can register; "ok" never returns an error,
\* "bad" may return one
Callbacks == {"ok", "bad"}
HookResults(fn) == IF fn = "bad" THEN {TRUE, FALSE} ELSE {FALSE}
Priorities == {0, 1}

\* AddHook's record: the id is fmt.Sprintf("%p", hook), the function pointer
newHook(fn, priority) == [fn |-> fn, priority |-> priority, id |-> fn]

\* Hook{}: the zero record that make([]Hook, n) fills the slice with
NilFn == "nil"
zeroHook == [fn |-> NilFn, priority |-> 0, id |-> ""]

\* AddHook's capacity test
\* a faulty capacity test that admits one record too many
registryFullAbove(hs) == Len(hs) > maxHooks

registryFull(hs) == Len(hs) >= maxHooks

\* Hook.priority is an int.  Go's int has 64 bits; the model's int has
\* intBits bits and wraps around in the same way (two's complement)
intBits == 16
MinInt == 0 - 2 ^ (intBits - 1)
MaxInt == 2 ^ (intBits - 1) - 1
wrap(n) == ((n - MinInt) % (2 ^ intBits)) + MinInt

\* the comparison executeHooks hands to slices.SortFunc: the difference of
\* two ints, an int
cmpHooks(a, b) == wrap(b.priority - a.priority)

RECURSIVE insertDown(_, _)
\* the inner loop of the insertion sort slices.SortFunc runs on short slices
insertDown(data, j) ==
  IF j > 1 /\ cmpHooks(data[j], data[j - 1]) < 0
  THEN insertDown([data EXCEPT ![j] = data[j - 1], ![j - 1] = data[j]], j - 1)
  ELSE data

RECURSIVE insertionSort(_, _)
insertionSort(data, i) ==
  IF i > Len(data) THEN data ELSE insertionSort(insertDown(data, i), i + 1)

\* slices.SortFunc on a slice of at most maxInsertion elements
sortedSnapshot(hs) == insertionSort(hs, 2)

\* pdqsort's limits: insertion sort up to maxInsertion elements, Tukey's
\* ninther from shortestNinther elements on, and the number of swaps of a
\* pivot choice that marks a slice as descending
maxInsertion == 12
shortestNinther == 50
maxSwaps == 4 * 3

\* order2: the two indices, the lesser element first, and the swap count
order2(data, a, b) ==
  IF cmpHooks(data[b], data[a]) < 0 THEN <<b, a, 1>> ELSE <<a, b, 0>>

\* median: the index of the median of data[a], data[b], data[c]
median(data, a, b, c) ==
  LET s1 == order2(data, a, b)
      s2 == order2(data, s1[2], c)
      s3 == order2(data, s1[1], s2[1])
  IN [idx |-> s3[2], swaps |-> s1[3] + s2[3] + s3[3]]

\* medianAdjacent, or the index itself on a slice too short for the ninther
medianAdjacent(data, a) ==
  IF Len(data) >= shortestNinther
  THEN median(data, a - 1, a, a + 1) ELSE [idx |-> a, swaps |-> 0]

\* choosePivot on the whole slice (more than maxInsertion elements): the
\* hint tells whether the sampled elements were in order, in reverse order
\* or neither (indices from 1)
choosePivot(data) ==
  LET q == Len(data) \div 4
      i == medianAdjacent(data, q + 1)
      j == medianAdjacent(data, q * 2 + 1)
      k == medianAdjacent(data, q * 3 + 1)
      m == median(data, i.idx, j.idx, k.idx)
      swaps == i.swaps + j.swaps + k.swaps + m.swaps
  IN [pivot |-> m.idx,
      hint |-> IF swaps = 0 THEN "increasing"
               ELSE IF swaps = maxSwaps THEN "decreasing" ELSE "unknown"]

reverseRange(data) == [i \in 1 .. Len(data) |-> data[Len(data) + 1 - i]]

\* partialInsertionSort finds no element out of order and returns true
inOrder(data) ==
  \A i \in 2 .. Len(data) : ~(cmpHooks(data[i], data[i - 1]) < 0)

RECURSIVE permsOf(_)
\* the orderings of a sequence
permsOf(s) ==
  IF s = <<>> THEN {<<>>}
  ELSE UNION { { <<s[i]>> \o r :
                   r \in permsOf(SubSeq(s, 1, i - 1) \o SubSeq(s, i + 1, Len(s))) } :
               i \in 1 .. Len(s) }

RECURSIVE tieOrders(_)
\* the orderings of a sorted sequence that are sorted too: elements that
\* compare equal may come in any order
tieOrders(s) ==
  IF s = <<>> THEN {<<>>}
  ELSE LET k == Cardinality({i \in 1 .. Len(s) : cmpHooks(s[i], s[1]) = 0})
       IN { a \o b : a \in permsOf(SubSeq(s, 1, k)),
                     b \in tieOrders(SubSeq(s, k + 1, Len(s))) }

\* slices.SortFunc (pdqsort, first round): insertion sort on a short slice;
\* on a longer one a slice found in reverse order is reversed, and a slice
\* then found in order is left as it is.  Every other slice is partitioned,
\* which fixes no order among elements that compare equal.
pdqsort(hs) ==
  IF Len(hs) <= maxInsertion THEN {sortedSnapshot(hs)}
  ELSE LET hint == choosePivot(hs).hint
           data == IF hint = "decreasing" THEN reverseRange(hs) ELSE hs
       IN IF hint # "unknown" /\ inOrder(data)
          THEN {data}
          ELSE tieOrders(insertionSort(hs, 2))

RECURSIVE indexOfId(_, _, _)
indexOfId(hs, id, i) ==
  IF i > Len(hs) THEN 0 ELSE IF hs[i].id = id THEN i ELSE indexOfId(hs, id, i + 1)

\* a faulty removeHook that deletes the first record, whatever its id
removeHookFirst(hs, id) == IF hs = <<>> THEN hs ELSE Tail(hs)

\* Logger.removeHook: delete the first record with that id
removeHook(hs, id) ==
  LET i == indexOfId(hs, id, 1)
  IN IF i = 0 THEN hs ELSE SubSeq(hs, 1, i - 1) \o SubSeq(hs, i + 1, Len(hs))

-----------------------------------------------------------------------------
(* The buffers: Logger.pool, getBuffer, putBuffer and the growth of a      *)
(* buffer under append.                                                    *)

\* New(): bufSize: 1024
bufSize == 1024

\* the state of Logger.pool is the bag of the capacities of the buffers put
\* into it, those of capacity bufSize left out: sync.Pool hands out New()
\* whenever it likes, and New() makes a buffer of that capacity
poolPut(p, cap) == IF cap = bufSize THEN p ELSE p (+) SetToBag({cap})

\* a faulty putBuffer that pools a buffer of any capacity
putBufferPoolsAny(cap) == cap >= 0

\* Logger.putBuffer: `if cap(*buf) > l.bufSize*4 { return }`
putBufferPools(cap) == ~(cap > bufSize * 4)

\* Logger.putBuffer: the pool afterwards
putBuffer(p, cap) == IF putBufferPools(cap) THEN poolPut(p, cap) ELSE p

\* Logger.getBuffer(size): the outcomes [cap, pool]: a buffer made for the
\* size when size > bufSize*4, else whatever l.pool.Get() yields, a buffer
\* by New() or one of those put back
getBuffer(p, size) ==
  IF size > bufSize * 4
  THEN {[cap |-> size, pool |-> p]}
  ELSE {[cap |-> bufSize, pool |-> p]}
       \cup {[cap |-> k, pool |-> p (-) SetToBag({k})] : k \in BagToSet(p)}

RECURSIVE growTo(_, _)
\* runtime.nextslicecap, its loop: grow by (newcap + 3*256) / 4
growTo(newcap, newLen) ==
  IF newcap >= newLen THEN newcap ELSE growTo(newcap + (newcap + 3 * 256) \div 4, newLen)

\* runtime.nextslicecap
nextslicecap(newLen, oldCap) ==
  IF newLen > oldCap + oldCap THEN newLen
  ELSE IF oldCap < 256 THEN oldCap + oldCap
       ELSE growTo(oldCap, newLen)

\* runtime: the size classes from 1024 bytes on
sizeClasses ==
  {1024, 1152, 1280, 1408, 1536, 1792, 2048, 2304, 2688, 3072, 3200, 3456,
   4096, 4864, 5120, 5376, 6144, 6528, 6784, 6912, 8192, 9472, 9728, 10240,
   10880, 12288, 13568, 14336, 16384, 18432, 19072, 20480, 21760, 24576,
   27264, 28672, 32768}

\* runtime.roundupsize for the sizes of the model (all of them at least
\* bufSize): the next size class, whole pages of 8192 above the last one
roundupsize(n) ==
  IF \E k \in sizeClasses : k >= n
  THEN CHOOSE k \in sizeClasses : k >= n /\ \A j \in sizeClasses : j >= n => k <= j
  ELSE ((n + 8191) \div 8192) * 8192

\* append of n bytes to a slice of length len and capacity cap: the
\* capacity afterwards
appendCap(cap, len, n) ==
  IF len + n <= cap THEN cap ELSE roundupsize(nextslicecap(len + n, cap))

\* len() of a string of the model that holds the ESC byte, which the model
\* writes as the four characters \033
escLen(s) == Len(s) - 3

\* len() of the header that fmt.Appendf appends
headerLen(lv, timestamp) ==
  escLen(levelColors(lv)) + Len(PaddedString(lv)) + escLen(colorReset)
    + 1 + Len(timestamp) + 2

\* event.msgf: estimatedSize
estimatedSize(lv, timestamp, format) ==
  escLen(levelColors(lv)) + Len(PaddedString(lv)) + escLen(colorReset)
    + Len(timestamp) + 2 + Len(Flat(format)) + 1

\* event.msgf: the capacity of a buffer of capacity cap after the three
\* appends of the header, the body and the newline
filled(cap, lv, timestamp, format, args) ==
  LET hl == headerLen(lv, timestamp)
      bl == Len(msgfBody(format, args))
  IN appendCap(appendCap(appendCap(cap, 0, hl), hl, bl), hl + bl, 1)

\* event.msgf from estimatedSize to the newline, for the call e that holds
\* its lease and its timestamp: the outcomes [ev, pool].  When the lease is
\* smaller than the estimate a replacement is taken with getBuffer and
\* e.buf points to it from then on; the lease stays as it was.
msgfBuild(e, p) ==
  LET est == estimatedSize(e.level, e.ts, e.format)
      line == msgfLine(e.level, e.ts, e.format, e.args)
  IN IF e.lease < est
     THEN {[ev |-> [e EXCEPT !.est = est, !.got = b.cap, !.line = line,
                             !.repl = filled(b.cap, e.level, e.ts, e.format, e.args)],
            pool |-> b.pool] : b \in getBuffer(p, est)}
     ELSE {[ev |-> [e EXCEPT !.est = est, !.line = line,
                             !.lease = filled(e.lease, e.level, e.ts, e.format, e.args)],
            pool |-> p]}

\* the buffers a call has obtained
obtained(e) ==
  (IF e.lease > 0 THEN {"lease"} ELSE {}) \cup (IF e.got > 0 THEN {"replacement"} ELSE {})

-----------------------------------------------------------------------------
(* The time cache.                                                         *)

cleanupPeriod == 60
\* the clock starts well after the zero value of timeKey and lastCleanup
Epoch == cleanupPeriod * 2
TimeFormats == {"sec", "day"}
DefaultTimeFormat == "sec"

\* time.Time.Format: a layout with seconds renders the second, a date-only
\* layout is the same for every second of the model's run
Format(t, layout) == IF layout = "sec" THEN "T" \o ToString(t) ELSE "D0"

-----------------------------------------------------------------------------
(* State.                                                                  *)

VARIABLES
  level,        \* Logger.level, the threshold
  output,       \* Logger.output: the current multiWriter [id, writers]
  timeFormat,   \* Logger.timeFormat
  timeKey,      \* Logger.timeKey: the second the cached timestamp is of
  timeValue,    \* Logger.timeValue: the cached timestamp
  lastCleanup,  \* Logger.lastCleanup
  hooks,        \* Logger.hooks: the registry, a sequence of Hook records
  mu,           \* Logger.mu: its holder, or NoOne
  wg,           \* Logger.wg: the counter of the hook WaitGroup
  jobs,         \* workerPool.jobs: the buffered channel's content
  stopped,      \* workerPool.stopped (stopChan and jobs are closed with it)
  wpc,          \* each worker goroutine's position
  wjob,         \* each worker's running job: [id, level, msg, snap, reg, idx]
  now,          \* the wall clock, in seconds
  halted,       \* "no", or how the process ended: "exit" | "panic"
  pool,         \* Logger.pool: the capacities of the buffers put back (a bag)
  pc,           \* each caller goroutine's position
  ev,           \* each caller's call in progress (or its last call)
  nemit,        \* emissions that passed the gate so far
  calls,        \* per emission id: the hook invocations of its dispatch pass
  jobState      \* per emission id: "none", or its dispatch job "submitted" | "done"

logVars == <<level, output, timeFormat, timeKey, timeValue, lastCleanup>>
hookVars == <<hooks, mu, wg>>
poolVars == <<jobs, stopped, wpc, wjob>>
callVars == <<pc, ev, nemit>>
histVars == <<calls, jobState>>
vars == <<logVars, hookVars, poolVars, callVars, now, halted, pool, histVars>>

\* the emissions that fill a pool whose workers are all busy: one job per
\* worker, a full queue, and one more
MaxBurst == Cardinality(Workers) + QueueCap + 1

EmitIds == 1 .. (IF MaxBurst > MaxEmits THEN MaxBurst ELSE MaxEmits)

NoJob == [id |-> 0, level |-> 0, msg |-> "", snap |-> <<>>, reg |-> <<>>, idx |-> 0]

\* a caller that has made no call yet
NoCall ==
  [op |-> "none", id |-> 0, level |-> 0, thr |-> 0, format |-> <<>>,
   args |-> <<>>, ts |-> "", line |-> "",
   mw |-> [id |-> 0, writers |-> <<>>], widx |-> 0, wrote |-> <<>>, msg |-> "", disp |-> "none", term |-> "none",
   before |-> {}, stale |-> {}, res |-> "none", fin |-> FALSE,
   sec |-> 0, lease |-> 0, got |-> 0, repl |-> 0, est |-> 0, put |-> <<>>,
   stopper |-> "none"]

\* newMultiWriter: a fresh object (with a mutex of its own); its id is the
\* least one that neither the logger nor a write in progress refers to
mwInUse == {output.id} \cup {ev[c].mw.id : c \in {d \in Callers : pc[d] = "write"}}
newMultiWriter(ws) ==
  [id |-> CHOOSE n \in 0 .. Cardinality(Callers) + 1 : n \notin mwInUse,
   writers |-> ws]

\* New(), and AddHook for every record of hs
InitWith(hs) ==
  /\ level = INFO
  /\ output = [id |-> 0, writers |-> <<"stdout">>]
  /\ timeFormat = DefaultTimeFormat
  /\ timeKey = 0
  /\ timeValue = ""
  /\ lastCleanup = 0
  /\ hooks = hs
  /\ mu = NoOne
  /\ wg = 0
  /\ jobs = <<>>
  /\ stopped = FALSE
  /\ wpc = [w \in Workers |-> "idle"]
  /\ wjob = [w \in Workers |-> NoJob]
  /\ now = Epoch
  /\ halted = "no"
  /\ pool = EmptyBag
  /\ pc = [c \in Callers |-> "idle"]
  /\ ev = [c \in Callers |-> NoCall]
  /\ nemit = 0
  /\ calls = [e \in EmitIds |-> <<>>]
  /\ jobState = [e \in EmitIds |-> "none"]

\* New()
Init == InitWith(<<>>)

Running == halted = "no"

\* the callbacks that have returned an error so far
Failed == {fn \in Callbacks :
            \E e \in EmitIds : \E i \in DOMAIN calls[e] :
              calls[e][i].fn = fn /\ calls[e][i].err}

\* the emissions whose dispatch job has been handed to submit so far
Submitted == {e \in EmitIds : jobState[e] # "none"}

-----------------------------------------------------------------------------
(* Configuration calls.                                                    *)

\* Logger.SetLevel
SetLevel(c, lv) ==
  /\ Running /\ pc[c] = "idle"
  /\ level' = lv
  /\ UNCHANGED <<output, timeFormat, timeKey, timeValue, lastCleanup>>
  /\ UNCHANGED <<hookVars, poolVars, callVars, now, halted, pool, histVars>>

\* a SetOutputs that hands its arguments on as they are
outputsAsGiven(ws) == ws

\* Logger.SetOutputs: no writer at all means standard output
outputsOrDefault(ws) == IF Len(ws) = 0 THEN <<"stdout">> ELSE ws

\* Logger.SetOutputs (the call and its arguments are recorded)
SetOutputs(c, ws) ==
  /\ Running /\ pc[c] = "idle"
  /\ output' = newMultiWriter(outputsOrDefault(ws))
  /\ ev' = [ev EXCEPT ![c] = [NoCall EXCEPT !.op = "setoutputs", !.args = ws,
                                             !.fin = TRUE]]
  /\ UNCHANGED <<level, timeFormat, timeKey, timeValue, lastCleanup>>
  /\ UNCHANGED <<hookVars, poolVars, pc, nemit, now, halted, pool, histVars>>

\* Logger.SetOutput
SetOutput(c, w) ==
  /\ Running /\ pc[c] = "idle"
  /\ output' = newMultiWriter(<<w>>)
  /\ UNCHANGED <<level, timeFormat, timeKey, timeValue, lastCleanup>>
  /\ UNCHANGED <<hookVars, poolVars, callVars, now, halted, pool, histVars>>

\* Logger.SetTimeFormat (the call is recorded)
SetTimeFormat(c, f) ==
  /\ Running /\ pc[c] = "idle"
  /\ timeFormat' = f
  /\ ev' = [ev EXCEPT ![c] = [NoCall EXCEPT !.op = "settimeformat", !.fin = TRUE]]
  /\ UNCHANGED <<level, output, timeKey, timeValue, lastCleanup>>
  /\ UNCHANGED <<hookVars, poolVars, pc, nemit, now, halted, pool, histVars>>

\* a second passes
Tick ==
  /\ Running
  /\ now < Epoch + MaxTicks
  /\ now' = now + 1
  /\ UNCHANGED <<logVars, hookVars, poolVars, callVars, halted, pool, histVars>>

\* Logger.AddHook, under l.mu
AddHook(c, fn, priority) ==
  /\ Running /\ pc[c] = "idle"
  /\ mu = NoOne
  /\ IF registryFull(hooks)
     THEN /\ hooks' = hooks
          /\ ev' = [ev EXCEPT ![c] = [NoCall EXCEPT !.op = "add", !.res = "err",
                                                     !.fin = TRUE]]
     ELSE /\ hooks' = Append(hooks, newHook(fn, priority))
          /\ ev' = [ev EXCEPT ![c] = [NoCall EXCEPT !.op = "add", !.res = "ok",
                                                     !.fin = TRUE]]
  /\ UNCHANGED <<mu, wg, pc, nemit>>
  /\ UNCHANGED <<logVars, poolVars, now, halted, pool, histVars>>

-----------------------------------------------------------------------------
(* An emission: Logger.Debug ... Logger.Panic, that is newEvent and msgf.  *)

\* a getFormattedTime that formats with the layout of New whatever
\* SetTimeFormat has set
formattedTimeDefaultLayout ==
  IF now = timeKey THEN timeValue ELSE Format(now, DefaultTimeFormat)

\* a getFormattedTime that formats afresh on every call
formattedTimeUncached == Format(now, timeFormat)

\* Logger.getFormattedTime: the timestamp it returns
formattedTime == IF now = timeKey THEN timeValue ELSE Format(now, timeFormat)

\* Logger.getFormattedTime with cleanupTimeCache: the cache afterwards
getFormattedTime ==
  IF now = timeKey
  THEN UNCHANGED <<timeKey, timeValue, lastCleanup>>
  ELSE /\ timeKey' = now
       /\ timeValue' = Format(now, timeFormat)
       /\ lastCleanup' = IF now - lastCleanup < cleanupPeriod
                         THEN lastCleanup ELSE now

\* the level method up to the point where the line is built: the gate, the
\* timestamp, the line.  A dropped message returns at once.
EmitUpTo(c, lv, format, args, bound) ==
  /\ Running /\ pc[c] = "idle"
  /\ IF newEventDrops(lv, level)
     THEN /\ ev' = [ev EXCEPT ![c] =
                      [NoCall EXCEPT !.op = "emit", !.level = lv, !.thr = level,
                                     !.format = format, !.args = args,
                                     !.res = "dropped", !.fin = TRUE]]
          /\ UNCHANGED <<pc, nemit, timeKey, timeValue, lastCleanup, pool>>
     ELSE /\ nemit < bound
          /\ nemit' = nemit + 1
          /\ getFormattedTime
          /\ \E b \in getBuffer(pool, bufSize) :
               \E o \in msgfBuild([NoCall EXCEPT !.op = "emit", !.id = nemit + 1,
                                                !.level = lv, !.thr = level,
                                                !.format = format, !.args = args,
                                                !.stale = Failed,
                                                !.lease = b.cap,
                                                !.sec = now,
                                                !.ts = formattedTime],
                                  b.pool) :
                 /\ ev' = [ev EXCEPT ![c] = o.ev]
                 /\ pool' = o.pool
          /\ pc' = [pc EXCEPT ![c] = "lock"]
  /\ UNCHANGED <<level, output, timeFormat>>
  /\ UNCHANGED <<hookVars, poolVars, now, halted, histVars>>

\* ... with at most MaxEmits emissions that pass the gate
Emit(c, lv, format, args) == EmitUpTo(c, lv, format, args, MaxEmits)

\* a faulty loop that starts at the second writer
rangeSecond == 1 + 1

\* multiWriter.write: `for _, writer := range w.writers` starts at the first
\* writer
rangeFirst == 1

\* a faulty loop that leaves at the first failed Write (n writers)
rangeBreakOnError(i, err, n) == IF err THEN n + 1 ELSE i + 1

\* ... and goes on to the next writer whatever Write returned
rangeAfter(i, err, n) == i + 1

\* a faulty multiWriter whose mutex lets everyone in
mwNeverLocked(id) == id < 0

\* multiWriter.mu of the multiWriter id is held: a write on it is in progress
mwLocked(id) == \E d \in Callers : pc[d] = "write" /\ ev[d].mw.id = id

\* multiWriter.write: w.mu.Lock() on the writer the logger refers to now
writeLock(c) ==
  /\ Running /\ pc[c] = "lock"
  /\ ~mwLocked(output.id)
  /\ ev' = [ev EXCEPT ![c].mw = output, ![c].widx = rangeFirst]
  /\ pc' = [pc EXCEPT ![c] = "write"]
  /\ UNCHANGED <<nemit, logVars, hookVars, poolVars, now, halted, pool, histVars>>

\* multiWriter.write: one round of the loop, writer.Write(data); the
\* result of Write is dropped
writeOne(c) ==
  /\ Running /\ pc[c] = "write"
  /\ LET i == ev[c].widx
         ws == ev[c].mw.writers
     IN /\ i <= Len(ws)
        /\ \E err \in (IF ws[i] \in FailingDests THEN {TRUE, FALSE} ELSE {FALSE}) :
             ev' = [ev EXCEPT ![c].wrote =
                      Append(@, [dest |-> ws[i], data |-> ev[c].line, err |-> err]),
                              ![c].widx = rangeAfter(i, err, Len(ws))]
  /\ UNCHANGED <<pc, nemit, logVars, hookVars, poolVars, now, halted, pool, histVars>>

\* multiWriter.write: the loop is over, w.mu.Unlock()
writeDone(c) ==
  /\ Running /\ pc[c] = "write"
  /\ ev[c].widx > Len(ev[c].mw.writers)
  /\ pc' = [pc EXCEPT ![c] = "hooks"]
  /\ UNCHANGED <<ev, nemit, logVars, hookVars, poolVars, now, halted, pool, histVars>>

\* the deferred e.logger.putBuffer(e.buf) of msgf runs: its argument was
\* evaluated at the defer statement, it is the lease
deferredPut(c, e) ==
  /\ pool' = putBuffer(pool, e.lease)
  /\ ev' = [ev EXCEPT ![c] = [e EXCEPT !.put = Append(@, "lease")]]

\* what msgf does after the hooks: FATAL and PANIC go on to drain the pool,
\* every other level returns (the deferred putBuffer runs)
afterHooks(c, e) ==
  IF e.level \in {FATAL, PANIC}
  THEN /\ pc' = [pc EXCEPT ![c] = "drain"]
       /\ ev' = [ev EXCEPT ![c] = e]
       /\ pool' = pool
  ELSE /\ pc' = [pc EXCEPT ![c] = "idle"]
       /\ deferredPut(c, [e EXCEPT !.fin = TRUE])

\* msgf: if len(l.hooks) > 0, format the message and executeHooks: wg.Add(1)
executeHooks(c) ==
  /\ Running /\ pc[c] = "hooks"
  /\ IF Len(hooks) > 0
     THEN /\ wg' = wg + 1
          /\ ev' = [ev EXCEPT ![c].msg = hookMessage(ev[c].format, ev[c].args)]
          /\ pc' = [pc EXCEPT ![c] = "submit"]
          /\ jobState' = [jobState EXCEPT ![ev[c].id] = "submitted"]
          /\ pool' = pool
     ELSE /\ wg' = wg
          /\ afterHooks(c, ev[c])
          /\ jobState' = jobState
  /\ UNCHANGED <<hooks, mu, nemit, logVars, poolVars, now, halted, calls>>

\* workerPool.submit: the test of p.stopped under p.mu
submit(c) ==
  /\ Running /\ pc[c] = "submit"
  /\ IF stopped
     THEN afterHooks(c, [ev[c] EXCEPT !.disp = "dropped"])
     ELSE /\ pc' = [pc EXCEPT ![c] = "send"]
          /\ ev' = ev
          /\ pool' = pool
  /\ UNCHANGED <<nemit, logVars, hookVars, poolVars, now, halted, histVars>>

theJob(e) == [id |-> e.id, level |-> e.level, msg |-> e.msg]

\* workerPool.submit: the select, case p.jobs <- job
sendJob(c) ==
  /\ Running /\ pc[c] = "send"
  /\ ~stopped
  /\ Len(jobs) < QueueCap
  /\ jobs' = Append(jobs, theJob(ev[c]))
  /\ afterHooks(c, [ev[c] EXCEPT !.disp = "sent"])
  /\ UNCHANGED <<stopped, wpc, wjob, nemit, logVars, hookVars, now, halted, histVars>>

\* workerPool.submit: the select, case <-p.stopChan
sendStopped(c) ==
  /\ Running /\ pc[c] = "send"
  /\ stopped
  /\ afterHooks(c, [ev[c] EXCEPT !.disp = "dropped"])
  /\ UNCHANGED <<nemit, logVars, hookVars, poolVars, now, halted, histVars>>

\* workerPool.submit: the select picks the send, and p.jobs is closed; the
\* panic unwinds msgf, whose deferred putBuffer runs
sendClosed(c) ==
  /\ Running /\ pc[c] = "send"
  /\ stopped
  /\ halted' = "panic"
  /\ deferredPut(c, [ev[c] EXCEPT !.disp = "panic"])
  /\ UNCHANGED <<pc, nemit, logVars, hookVars, poolVars, now, histVars>>

\* a wait on l.wg that returns at once, whatever the counter holds
hooksNotAwaited == TRUE

\* sync.WaitGroup.Wait on l.wg returns
hooksDrained == wg = 0

\* a faulty stop that does not wait for the workers
poolNotAwaited == stopped

\* sync.WaitGroup.Wait on p.wg returns: every worker has left its loop
poolJoined == \A w \in Workers : wpc[w] = "exited"

\* msgf at FATAL or PANIC: e.logger.wg.Wait()
drain(c) ==
  /\ Running /\ pc[c] = "drain"
  /\ hooksDrained
  /\ pc' = [pc EXCEPT ![c] = "stop"]
  /\ ev' = [ev EXCEPT ![c].before = Submitted]
  /\ UNCHANGED <<nemit, logVars, hookVars, poolVars, now, halted, pool, histVars>>

\* workerPool.stop, up to p.mu.Unlock(): a stopped pool is left alone
stop(c) ==
  /\ Running /\ pc[c] = "stop"
  /\ IF stopped
     THEN /\ pc' = [pc EXCEPT ![c] = "exit"]
          /\ stopped' = stopped
     ELSE /\ stopped' = TRUE
          /\ pc' = [pc EXCEPT ![c] = "join"]
  /\ ev' = [ev EXCEPT ![c].stopper = IF stopped THEN "again" ELSE "first"]
  /\ UNCHANGED <<jobs, wpc, wjob, nemit, logVars, hookVars, now, halted, pool, histVars>>

\* workerPool.stop: p.wg.Wait()
join(c) ==
  /\ Running /\ pc[c] = "join"
  /\ poolJoined
  /\ pc' = [pc EXCEPT ![c] = "exit"]
  /\ UNCHANGED <<ev, nemit, logVars, hookVars, poolVars, now, halted, pool, histVars>>

\* exitFunc(1) / panicFunc(message): os.Exit and panic end the process, a
\* function set by SetExitFunc / SetPanicFunc may return.  The deferred
\* putBuffer of msgf runs when msgf returns and when a panic unwinds it;
\* os.Exit runs no deferred call.
terminate(c) ==
  /\ Running /\ pc[c] = "exit"
  /\ LET how == IF ev[c].level = FATAL THEN "exit" ELSE "panic"
     IN \E overridden \in BOOLEAN :
          IF overridden
          THEN /\ deferredPut(c, [ev[c] EXCEPT !.term = how, !.fin = TRUE])
               /\ pc' = [pc EXCEPT ![c] = "idle"]
               /\ halted' = halted
          ELSE /\ IF how = "panic"
                  THEN deferredPut(c, [ev[c] EXCEPT !.term = how])
                  ELSE /\ ev' = [ev EXCEPT ![c].term = how]
                       /\ pool' = pool
               /\ pc' = pc
               /\ halted' = how
  /\ UNCHANGED <<nemit, logVars, hookVars, poolVars, now, histVars>>

-----------------------------------------------------------------------------
(* The workers and the dispatch job.                                       *)

\* the job moves on to the hook after idx, or ends: defer l.wg.Done()
jobAdvance(w) ==
  IF wjob[w].idx < Len(wjob[w].snap)
  THEN /\ wjob' = [wjob EXCEPT ![w].idx = @ + 1]
       /\ wpc' = [wpc EXCEPT ![w] = "run"]
       /\ wg' = wg
       /\ jobState' = jobState
  ELSE /\ wjob' = [wjob EXCEPT ![w] = NoJob]
       /\ wpc' = [wpc EXCEPT ![w] = "idle"]
       /\ wg' = wg - 1
       /\ jobState' = [jobState EXCEPT ![wjob[w].id] = "done"]

\* workerPool.worker: case job, ok := <-p.jobs with a job in the channel;
\* the job starts, copies l.hooks and sorts the copy
workerTake(w) ==
  /\ Running /\ wpc[w] = "idle"
  /\ jobs # <<>>
  /\ jobs' = Tail(jobs)
  /\ \E snap \in pdqsort(hooks) :
        IF snap = <<>>
        THEN /\ wg' = wg - 1
             /\ jobState' = [jobState EXCEPT ![Head(jobs).id] = "done"]
             /\ UNCHANGED <<wpc, wjob>>
        ELSE /\ wjob' = [wjob EXCEPT ![w] =
                           [id |-> Head(jobs).id, level |-> Head(jobs).level,
                            msg |-> Head(jobs).msg, snap |-> snap, reg |-> hooks,
                            idx |-> 1]]
             /\ wpc' = [wpc EXCEPT ![w] = "run"]
             /\ wg' = wg
             /\ jobState' = jobState
  /\ UNCHANGED <<hooks, mu, stopped, logVars, callVars, now, halted, pool, calls>>

\* the dispatch job: hook.fn(level, msg); an error is printed to stderr
\* and the hook is to be removed
workerCall(w) ==
  /\ Running /\ wpc[w] = "run"
  /\ LET j == wjob[w]
         h == j.snap[j.idx]
     IN \E err \in HookResults(h.fn) :
          /\ h.fn # NilFn
          /\ calls' = [calls EXCEPT ![j.id] =
                         Append(@, [fn |-> h.fn, level |-> j.level,
                                    msg |-> j.msg, err |-> err])]
          /\ IF err
             THEN /\ wpc' = [wpc EXCEPT ![w] = "remove"]
                  /\ UNCHANGED <<wjob, wg, jobState>>
             ELSE jobAdvance(w)
  /\ UNCHANGED <<hooks, mu, jobs, stopped, logVars, callVars, now, halted, pool>>

\* the dispatch job: l.removeHook(hook.id), under l.mu
workerRemove(w) ==
  /\ Running /\ wpc[w] = "remove"
  /\ mu = NoOne
  /\ hooks' = removeHook(hooks, wjob[w].snap[wjob[w].idx].id)
  /\ jobAdvance(w)
  /\ UNCHANGED <<mu, jobs, stopped, logVars, callVars, now, halted, pool, calls>>

\* workerPool.worker: case <-p.stopChan, or p.jobs closed and empty
workerExit(w) ==
  /\ Running /\ wpc[w] = "idle"
  /\ stopped
  /\ wpc' = [wpc EXCEPT ![w] = "exited"]
  /\ UNCHANGED <<jobs, stopped, wjob, logVars, hookVars, callVars, now, halted, pool, histVars>>

-----------------------------------------------------------------------------
(* Logger.Close.                                                           *)

\* Close: l.mu.Lock(), then workerPool.stop up to p.mu.Unlock()
Close(c) ==
  /\ Running /\ pc[c] = "idle"
  /\ mu = NoOne
  /\ mu' = c
  /\ ev' = [ev EXCEPT ![c] = [NoCall EXCEPT !.op = "close", !.before = Submitted,
                                             !.res = IF stopped THEN "again" ELSE "first"]]
  /\ IF stopped
     THEN /\ pc' = [pc EXCEPT ![c] = "cwait"]
          /\ stopped' = stopped
     ELSE /\ stopped' = TRUE
          /\ pc' = [pc EXCEPT ![c] = "cjoin"]
  /\ UNCHANGED <<hooks, wg, jobs, wpc, wjob, nemit, logVars, now, halted, pool, histVars>>

\* Close: workerPool.stop's p.wg.Wait()
closeJoin(c) ==
  /\ Running /\ pc[c] = "cjoin"
  /\ poolJoined
  /\ pc' = [pc EXCEPT ![c] = "cwait"]
  /\ UNCHANGED <<ev, nemit, logVars, hookVars, poolVars, now, halted, pool, histVars>>

\* a faulty Close that does not wait for the hooks
closeNoWait == TRUE

\* Close: l.wg.Wait() returns
closeDrained == wg = 0

\* Close: l.wg.Wait(), l.hooks = nil, and the deferred l.mu.Unlock()
closeWait(c) ==
  /\ Running /\ pc[c] = "cwait"
  /\ closeDrained
  /\ hooks' = <<>>
  /\ mu' = NoOne
  /\ pc' = [pc EXCEPT ![c] = "idle"]
  /\ ev' = [ev EXCEPT ![c].fin = TRUE]
  /\ UNCHANGED <<wg, nemit, logVars, poolVars, now, halted, pool, histVars>>

-----------------------------------------------------------------------------
(* The emission pipeline without hooks: one caller that sets the level and *)
(* the outputs and emits messages of every level and argument kind.        *)

\* format strings and argument lists of the emissions
Messages ==
  { [format |-> <<"plain">>, args |-> <<>>],
    [format |-> <<"rate 100", "%d">>, args |-> <<>>],
    [format |-> <<"value=", "%d">>, args |-> <<[kind |-> "int", text |-> "42"]>>],
    [format |-> <<"Hello, ", "%s", "!">>, args |-> <<[kind |-> "string", text |-> "World"]>>],
    [format |-> <<"n=", "%d">>, args |-> <<[kind |-> "int64", text |-> "7"]>>],
    [format |-> <<"x=", "%v">>, args |-> <<[kind |-> "float64", text |-> "1.5"]>>],
    [format |-> <<"failed: ", "%v">>, args |-> <<[kind |-> "error", text |-> "EOF"]>>],
    [format |-> <<"ok=", "%v">>, args |-> <<[kind |-> "bool", text |-> "true"]>>],
    [format |-> <<"%s", "=", "%d">>,
     args |-> <<[kind |-> "string", text |-> "k"], [kind |-> "int", text |-> "1"]>>] }

PlainMessage == [format |-> <<"plain">>, args |-> <<>>]

WriterLists == { <<>>, <<"d1">>, <<"d1", "bad">>, <<"bad", "d1">>, <<"bad", "stdout", "d1">> }

\* the steps of an emission in progress: msgf from the write on
EmitStep(c) ==
  \/ writeLock(c) \/ writeOne(c) \/ writeDone(c)
  \/ executeHooks(c) \/ submit(c)
  \/ sendJob(c) \/ sendStopped(c) \/ sendClosed(c)

\* the end of a FATAL or PANIC emission
FatalStep(c) == drain(c) \/ stop(c) \/ join(c) \/ terminate(c)

\* the steps of a Close in progress
CloseStep(c) == closeJoin(c) \/ closeWait(c)

\* the steps of a call in progress
CallerStep(c) == EmitStep(c) \/ FatalStep(c) \/ CloseStep(c)

WorkerStep(w) ==
  \/ workerTake(w) \/ workerCall(w) \/ workerRemove(w) \/ workerExit(w)

NextLog ==
  \/ \E lv \in Levels : SetLevel("c1", lv)
  \/ \E ws \in WriterLists : SetOutputs("c1", ws)
  \/ \E lv \in Levels : Emit("c1", lv, PlainMessage.format, PlainMessage.args)
  \/ \E m \in Messages : Emit("c1", INFO, m.format, m.args)
  \/ writeLock("c1") \/ writeOne("c1") \/ writeDone("c1")
  \/ executeHooks("c1")
  \/ drain("c1") \/ stop("c1") \/ join("c1") \/ terminate("c1")
  \/ \E w \in Workers : workerExit(w)

SpecLog == Init /\ [][NextLog]_vars

\* an emission whose gate has been passed or refused
Emitted(c) == ev[c].op = "emit"

\* an emission whose fan-out is over
FannedOut(c) == Emitted(c) /\ ev[c].id > 0 /\ pc[c] \notin {"lock", "write"}

\* C1: a message of level L, emitted while the threshold is T, is written to
\* the sink if and only if L >= T: a message below the threshold returns at
\* once with nothing written, and one at or above it has been written to the
\* sink by the time its fan-out is over.
C1_WrittenIffAtOrAboveThreshold ==
  \A c \in Callers :
    Emitted(c) =>
      /\ ev[c].level < ev[c].thr => ev[c].fin /\ ev[c].id = 0 /\ ev[c].wrote = <<>>
      /\ ev[c].level >= ev[c].thr =>
            /\ ev[c].id > 0
            /\ FannedOut(c) => ev[c].wrote # <<>>
      /\ ev[c].fin => (ev[c].wrote # <<>> <=> ev[c].level >= ev[c].thr)

\* C1, its case: with the threshold moved to WARN, a WARN message has been
\* written and its call has returned
C1_WrittenAtThreshold ==
  \E c \in Callers :
    /\ Emitted(c) /\ ev[c].fin
    /\ ev[c].thr = WARN /\ ev[c].level = WARN
    /\ ev[c].wrote # <<>>

\* C2: the body of a written line is the format string with the arguments
\* substituted by the standard formatting rules, whatever the number and the
\* kinds of the arguments.
C2_BodyIsFormatted ==
  \A c \in Callers :
    Emitted(c) /\ ev[c].id > 0 =>
      \A i \in DOMAIN ev[c].wrote :
        ev[c].wrote[i].data =
          msgfHeader(ev[c].level, ev[c].ts) \o Sprintf(ev[c].format, ev[c].args) \o "\n"

\* C6: one emission hands the same line exactly once to each writer of the
\* logger's multi-writer, in the order of registration, and all of them have
\* it when the fan-out is over (so before the call returns).
C6_FanOutOnceInOrder ==
  \A c \in Callers :
    Emitted(c) /\ ev[c].id > 0 =>
      /\ pc[c] \in {"write", "hooks"} => ev[c].mw = output
      /\ Len(ev[c].wrote) <= Len(ev[c].mw.writers)
      /\ \A i \in DOMAIN ev[c].wrote :
            /\ ev[c].wrote[i].dest = ev[c].mw.writers[i]
            /\ ev[c].wrote[i].data = ev[c].line
      /\ FannedOut(c) => Len(ev[c].wrote) = Len(ev[c].mw.writers)

\* C6, its case: an emission to three writers has returned
C6_ThreeWritersServed ==
  \E c \in Callers :
    /\ FannedOut(c) /\ ev[c].fin
    /\ ev[c].mw.writers = <<"bad", "stdout", "d1">>
    /\ Len(ev[c].wrote) = 3

\* an emission one of whose writes has failed
WriteFailed(c) == \E i \in DOMAIN ev[c].wrote : ev[c].wrote[i].err

\* C7: a writer that fails stops neither the fan-out nor the emission: every
\* writer after it gets the line, the call reports no error, and it goes on
\* to the hook step and returns.
C7_FailedWriteDoesNotStop ==
  \A c \in Callers :
    Emitted(c) /\ ev[c].id > 0 /\ WriteFailed(c) =>
      /\ pc[c] = "write" =>
            \/ ev[c].widx <= Len(ev[c].mw.writers) /\ ENABLED writeOne(c)
            \/ Len(ev[c].wrote) = Len(ev[c].mw.writers) /\ ENABLED writeDone(c)
      /\ FannedOut(c) =>
            \A i \in DOMAIN ev[c].mw.writers :
              /\ i \in DOMAIN ev[c].wrote
              /\ ev[c].wrote[i].data = ev[c].line
      /\ pc[c] = "hooks" => ENABLED executeHooks(c)
      /\ ev[c].res = "none"

\* C7, its case: the first of three writers failed, the other two have the
\* line and the call has returned
C7_WritersAfterFailureServed ==
  \E c \in Callers :
    /\ FannedOut(c) /\ ev[c].fin
    /\ Len(ev[c].wrote) = 3
    /\ ev[c].wrote[1].err
    /\ ev[c].wrote[3].dest = "d1" /\ ~ev[c].wrote[3].err

\* C18: after any SetOutputs call the logger has at least one destination:
\* a call without arguments leaves exactly standard output, a call with
\* w1..wn leaves exactly w1..wn in that order, whatever the set was before.
C18_OutputsAsGivenOrStdout ==
  [][\A c \in Callers :
       ev'[c].op = "setoutputs" /\ output' # output =>
         /\ Len(output'.writers) > 0
         /\ ev'[c].args = <<>> => output'.writers = <<"stdout">>
         /\ ev'[c].args # <<>> => output'.writers = ev'[c].args]_vars

\* C18, its case: SetOutputs without arguments has been called on a logger
\* that has written a line, and standard output is its one destination
C18_ResetToStdout ==
  \E c \in Callers :
    /\ ev[c].op = "setoutputs" /\ ev[c].args = <<>>
    /\ nemit > 0
    /\ output.writers = <<"stdout">>

-----------------------------------------------------------------------------
(* Hooks, the pool and Close: two callers that register hooks, emit and    *)
(* close the logger, and the workers that run the dispatch jobs.           *)

\* the callbacks of the registered hooks
Registered == {hooks[i].fn : i \in DOMAIN hooks}

\* a callback is registered once, under one priority
AddHookOnce(c) ==
  \E fn \in Callbacks \ (Registered \cup Failed) : \E priority \in Priorities :
    AddHook(c, fn, priority)

\* "c1" registers hooks and emits, also at FATAL; "c2" emits and closes
NextHooks ==
  \/ AddHookOnce("c1")
  \/ \E c \in Callers : Emit(c, INFO, PlainMessage.format, PlainMessage.args)
  \/ Emit("c1", FATAL, PlainMessage.format, PlainMessage.args)
  \/ Close("c2")
  \/ \E c \in Callers : CallerStep(c)
  \/ \E w \in Workers : WorkerStep(w)

SpecHooks == Init /\ [][NextHooks]_vars

\* C4: once a hook's callback has returned an error, no dispatch pass of an
\* emission made after that invokes the hook (the hook is removed before the
\* next pass, so one failing hook gives one "Hook error" line).
C4_FailedHookNotInvokedLater ==
  \A c \in Callers :
    Emitted(c) /\ ev[c].id > 0 =>
      \A i \in DOMAIN calls[ev[c].id] : calls[ev[c].id][i].fn \notin ev[c].stale

\* C8: when Close returns, every dispatch job handed to submit before the
\* call has run to its end, and the registry is empty.
C8_CloseReturnsAfterJobs ==
  [][\A c \in Callers :
       pc[c] = "cwait" /\ pc'[c] = "idle" =>
         /\ hooks' = <<>>
         /\ \A e \in ev[c].before : jobState'[e] = "done"]_vars

\* C8, its case: a Close has returned that was called after a job had been
\* submitted, and the hooks of that job have been invoked
C8_ClosedAfterJob ==
  \E c \in Callers :
    /\ ev[c].op = "close" /\ ev[c].fin
    /\ \E e \in ev[c].before : jobState[e] = "done" /\ calls[e] # <<>>

\* some step of a call in progress or of a worker can be taken
CanProceed ==
  \/ \E c \in Callers : ENABLED CallerStep(c)
  \/ \E w \in Workers : ENABLED WorkerStep(w)

\* C9: a Close called while dispatch jobs are queued or running returns, also
\* when a running pass holds a hook that fails and is to be removed: as long
\* as the process runs, a first Close in progress is never left with no
\* step of any call or worker to take.
C9_CloseNotStuck ==
  \A c \in Callers :
    /\ Running /\ ev[c].op = "close" /\ ev[c].res = "first" /\ ~ev[c].fin
    /\ jobs # <<>> \/ \E w \in Workers : wpc[w] \in {"run", "remove"}
    => CanProceed

\* C10: a Close on a logger whose pool is stopped already (by a Close or by
\* a FATAL or PANIC emission) returns: as long as the process runs, it is
\* never left with no step of any call or worker to take.
C10_CloseAgainNotStuck ==
  \A c \in Callers :
    Running /\ ev[c].op = "close" /\ ev[c].res = "again" /\ ~ev[c].fin => CanProceed

\* C11: workerPool.stop may be called any number of times, one after the
\* other or at once: no call panics or closes a channel twice, the pool ends
\* stopped, and no call blocks forever: as long as the process runs, a call
\* that waits in stop for the workers to leave is never left with no step
\* of any call or worker to take.
C11_StopNotStuck ==
  \A c \in Callers :
    Running /\ pc[c] \in {"join", "cjoin"} => CanProceed

\* C12: submit never panics once the pool is stopping or stopped: whatever
\* stop does meanwhile, no submit ends in the panic of a send on the closed
\* jobs channel; its job is either queued or dropped.
C12_SubmitNeverPanics ==
  \A c \in Callers : ev[c].disp # "panic"

\* the step in which call c invokes exitFunc or panicFunc
Terminates(c) == pc[c] = "exit" /\ ev[c].term = "none" /\ ev'[c].term # "none"

\* C13: a FATAL or PANIC emission that passes the gate invokes its
\* termination action only after its line has been written to every writer,
\* the pool is in its stopped state, and every dispatch job submitted before
\* its wait on the hook jobs returned, its own job included, has run to its
\* end.
C13_TerminatesAfterWriteDrainStop ==
  [][\A c \in Callers :
       Terminates(c) =>
         /\ ev[c].level \in {FATAL, PANIC}
         /\ FannedOut(c) /\ ev[c].wrote # <<>>
         /\ stopped
         /\ ev[c].disp = "sent" => ev[c].id \in ev[c].before
         /\ \A e \in ev[c].before : jobState[e] = "done"]_vars

\* C13, its case: a FATAL emission has invoked its termination action after
\* its own dispatch job was submitted and the hooks of that job were invoked
C13_TerminatedAfterOwnJob ==
  \E c \in Callers :
    /\ ev[c].level = FATAL /\ ev[c].term # "none"
    /\ ev[c].disp = "sent" /\ ev[c].id \in ev[c].before
    /\ calls[ev[c].id] # <<>>

\* C13 as stated: at the termination action every dispatch job submitted so
\* far, by this emission or by any other, has run to its end.
C13_EveryJobSoFarCompleted ==
  [][\A c \in Callers :
       Terminates(c) => \A e \in Submitted : jobState[e] = "done"]_vars

\* C14: every FATAL or PANIC emission that passes the gate comes to its
\* termination action, with or without hooks, also on a logger that was
\* closed or whose pool was stopped before: as long as the process runs, such
\* an emission that has not terminated yet is never left with no step of
\* any call or worker to take.
C14_TerminalEmissionNotStuck ==
  \A c \in Callers :
    /\ Running /\ Emitted(c) /\ ev[c].level \in {FATAL, PANIC}
    /\ ev[c].id > 0 /\ ev[c].term = "none"
    => CanProceed

-----------------------------------------------------------------------------
(* One hook that never fails, a running pool: "c1" registers the hook, two *)
(* callers emit, the workers run the dispatch jobs.  The scheduler lets    *)
(* every goroutine that can take a step take one.                          *)

RunLevels == {DEBUG, INFO}

RunMessages ==
  { [format |-> <<"value=", "%d">>, args |-> <<[kind |-> "int", text |-> "42"]>>],
    [format |-> <<"ok=", "%v">>, args |-> <<[kind |-> "bool", text |-> "true"]>>] }

\* the one hook is registered
AddOkHook == hooks = <<>> /\ AddHook("c1", "ok", 0)

\* the steps of a non-terminal emission on a running pool
RunStep(c) ==
  \/ writeLock(c) \/ writeOne(c) \/ writeDone(c)
  \/ executeHooks(c) \/ submit(c) \/ sendJob(c)

\* the steps of a worker of a running pool whose hooks do not fail
RunWorker(w) == workerTake(w) \/ workerCall(w)

NextRun ==
  \/ AddOkHook
  \/ \E c \in Callers : \E lv \in RunLevels : \E m \in RunMessages :
       Emit(c, lv, m.format, m.args)
  \/ \E c \in Callers : RunStep(c)
  \/ \E w \in Workers : RunWorker(w)

SpecRun ==
  /\ Init /\ [][NextRun]_vars
  /\ \A c \in Callers : WF_vars(RunStep(c))
  /\ \A w \in Workers : WF_vars(RunWorker(w))

\* the ids the emissions of this specification carry
RunIds == 1 .. MaxEmits

\* the one invocation an emission of level lv and message m is to cause
OneCall(lv, m) ==
  <<[fn |-> "ok", level |-> lv, msg |-> Sprintf(m.format, m.args), err |-> FALSE]>>

\* C3: with one hook that never fails and the pool running, an emission
\* that passes the gate leads to exactly one invocation of the hook, with
\* the level of the emission and its formatted message: no emission ever
\* has more than one invocation, and each has its one in the end.
C3_OneInvocationPerEmission ==
  /\ [](\A e \in RunIds : Len(calls[e]) <= 1)
  /\ \A e \in RunIds : \A lv \in {l \in RunLevels : l >= INFO} : \A m \in RunMessages :
       (\E c \in Callers :
          /\ pc[c] = "lock" /\ ev[c].id = e /\ Len(hooks) = 1
          /\ ev[c].level = lv /\ ev[c].format = m.format /\ ev[c].args = m.args)
         ~> (calls[e] = OneCall(lv, m))

\* C3, its case: the hook has been invoked with (INFO, "value=42") for an
\* emission of Info("value=%d", 42) that has returned
C3_HookGotValue42 ==
  \E c \in Callers :
    /\ Emitted(c) /\ ev[c].fin /\ ev[c].level = INFO /\ ev[c].id > 0
    /\ ev[c].format = <<"value=", "%d">>
    /\ calls[ev[c].id] = <<[fn |-> "ok", level |-> INFO, msg |-> "value=42", err |-> FALSE]>>

-----------------------------------------------------------------------------
(* The registry at its capacity: two callers register one callback again   *)
(* and again and close the logger, while records are removed as the        *)
(* dispatch passes do it.                                                   *)

\* Logger.removeHook(id), called by a dispatch pass (whose other steps are
\* left out of this specification)
removeHookCall(id) ==
  /\ Running
  /\ mu = NoOne
  /\ hooks # <<>>
  /\ hooks' = removeHook(hooks, id)
  /\ UNCHANGED <<mu, wg, logVars, poolVars, callVars, now, halted, pool, histVars>>

NextCap ==
  \/ \E c \in Callers : AddHook(c, "ok", 0)
  \/ removeHookCall("ok")
  \/ \E c \in Callers : Close(c)
  \/ \E c \in Callers : CloseStep(c)
  \/ \E w \in Workers : workerExit(w)

SpecCap == Init /\ [][NextCap]_vars

\* C5: AddHook on a registry of maxHooks records returns an error and
\* leaves the registry as it is; so the registry never holds more than
\* maxHooks records, whatever AddHook, removal and Close do.
C5_RegistryWithinCapacity ==
  /\ [](Len(hooks) <= maxHooks)
  /\ [][Len(hooks) >= maxHooks =>
          /\ Len(hooks') <= Len(hooks)
          /\ \A c \in Callers :
               ev'[c].op = "add" /\ ev'[c] # ev[c] =>
                 ev'[c].res = "err" /\ hooks' = hooks]_vars

\* C5, its case: an AddHook has been refused on a registry of maxHooks
\* records, which it still holds
C5_RefusedAtCapacity ==
  \E c \in Callers :
    /\ ev[c].op = "add" /\ ev[c].res = "err"
    /\ Len(hooks) = maxHooks

-----------------------------------------------------------------------------
(* One caller, one hook that never fails, a running pool, and as many       *)
(* emissions as it takes to have every worker in a job and the queue full.  *)

NextQueue ==
  \/ AddOkHook
  \/ EmitUpTo("c1", INFO, PlainMessage.format, PlainMessage.args, MaxBurst)
  \/ RunStep("c1")
  \/ \E w \in Workers : RunWorker(w)

SpecQueue == Init /\ [][NextQueue]_vars

\* C15: a non-terminal emission returns to its caller without waiting for any
\* hook callback to start or to finish, however many earlier emissions still
\* have their jobs outstanding: as long as its call has not returned, the
\* emission has a step of its own to take or a worker is free to receive
\* its job; it is never held until a worker comes out of a hook callback
\* (here the caller is alone, nobody else holds the writers, the pool runs).
C15_EmissionNeverWaitsForHooks ==
  \A c \in Callers :
    Running /\ Emitted(c) /\ ev[c].level < FATAL /\ ~ev[c].fin =>
      \/ ENABLED RunStep(c)
      \/ \E w \in Workers : wpc[w] = "idle"

-----------------------------------------------------------------------------
(* Two callers emit while one of them replaces the outputs; no hooks.       *)

OutLists == { <<>>, <<"d1">>, <<"stdout", "d1">> }

\* the steps of an emission on a logger without hooks
OutStep(c) == writeLock(c) \/ writeOne(c) \/ writeDone(c) \/ executeHooks(c)

\* "c1" emits; "c2" replaces the outputs and emits
NextOut ==
  \/ \E ws \in OutLists : SetOutputs("c2", ws)
  \/ SetOutput("c2", "d1")
  \/ \E c \in Callers : Emit(c, INFO, PlainMessage.format, PlainMessage.args)
  \/ \E c \in Callers : OutStep(c)

SpecOut == Init /\ [][NextOut]_vars

\* the destination call c is about to hand its line to, inside
\* multiWriter.write ("" outside of it)
WritingTo(c) ==
  IF pc[c] = "write" /\ ev[c].widx <= Len(ev[c].mw.writers)
  THEN ev[c].mw.writers[ev[c].widx] ELSE ""

\* C16: the writes of one logger exclude each other under any interleaving
\* of emissions and SetOutput / SetOutputs calls: two emissions are never
\* inside the write at the same time with the same destination next, so no
\* destination gets two lines interleaved.
C16_WritesMutuallyExclusive ==
  \A c, d \in Callers :
    c # d /\ WritingTo(c) # "" => WritingTo(c) # WritingTo(d)

-----------------------------------------------------------------------------
(* A logger with a registry of 1 to 50 hooks that never fail, one caller.   *)

\* n callbacks that never return an error, registered with the priorities
\* 0, 0, 1, 2, ..: the first two tie, the later ones rank higher
ascending(n) ==
  [i \in 1 .. n |-> newHook("h" \o ToString(i), IF i <= 2 THEN 0 ELSE i - 2)]

\* n callbacks registered with the priorities 1, 1, 0, 0, ..
descending(n) ==
  [i \in 1 .. n |-> newHook("h" \o ToString(i), IF i <= 2 THEN 1 ELSE 0)]

Registries ==
  {ascending(n) : n \in {1, 2, 3, maxInsertion, shortestNinther}}
    \cup {descending(n) : n \in {3, 4}}

InitSort == \E hs \in Registries : InitWith(hs)

NextSort ==
  \/ Emit("c1", INFO, PlainMessage.format, PlainMessage.args)
  \/ RunStep("c1")
  \/ \E w \in Workers : RunWorker(w)

SpecSort == InitSort /\ [][NextSort]_vars

\* the records of hs by descending priority, records of one priority in the
\* order of hs
stableOrder(hs) ==
  LET n == Len(hs)
      ahead(i, j) ==
        \/ hs[i].priority > hs[j].priority
        \/ hs[i].priority = hs[j].priority /\ i < j
      place(i) == 1 + Cardinality({j \in 1 .. n : ahead(j, i)})
  IN [k \in 1 .. n |-> hs[CHOOSE i \in 1 .. n : place(i) = k]]

\* C17: within one dispatch pass the hooks are invoked by descending
\* priority, hooks of equal priority in the order in which they were added:
\* the list a pass starts to walk through is the registry it copied, in that
\* order.
C17_PassOrderStableDescending ==
  \A w \in Workers :
    wpc[w] = "run" /\ wjob[w].idx = 1 => wjob[w].snap = stableOrder(wjob[w].reg)

-----------------------------------------------------------------------------
(* One caller sets the time format and emits while the seconds pass.        *)

NextTime ==
  \/ \E f \in TimeFormats : SetTimeFormat("c1", f)
  \/ Tick
  \/ Emit("c1", INFO, PlainMessage.format, PlainMessage.args)
  \/ OutStep("c1")

SpecTime == Init /\ [][NextTime]_vars

\* the step in which call c passes the gate and takes its timestamp
Stamps(c) == pc[c] = "idle" /\ pc'[c] = "lock"

\* C19: a format set by SetTimeFormat takes effect on the next miss of the
\* time cache: an emission in the second that is cached gets the cached
\* string, whatever the format is by now, and an emission in another second
\* gets the time in the format set last, which is cached from then on.
C19_FormatAppliesOnCacheMiss ==
  [][\A c \in Callers :
       Stamps(c) =>
         /\ now = timeKey =>
               ev'[c].ts = timeValue /\ timeValue' = timeValue /\ timeKey' = timeKey
         /\ now # timeKey =>
               /\ ev'[c].ts = Format(now, timeFormat)
               /\ timeValue' = Format(now, timeFormat) /\ timeKey' = now]_vars

\* C19, its case: the format was changed within a second that is cached, and
\* a line emitted after that in the same second carries the string cached
\* before, which is not the time in the new format
C19_CachedStringKept ==
  \E c \in Callers :
    /\ Emitted(c) /\ ev[c].id > 1
    /\ timeKey = now /\ ev[c].ts = timeValue
    /\ ev[c].ts # Format(now, timeFormat)

\* C20: after SetTimeFormat(f) the next line of a caller carries the current
\* time in the format f, if no line was stamped in the current second before
\* (the second is not the cached one).
C20_NextLineInNewFormatOnMiss ==
  [][\A c \in Callers :
       ev[c].op = "settimeformat" /\ Stamps(c) /\ timeKey # now =>
         ev'[c].line = msgfLine(ev'[c].level, Format(now, timeFormat),
                                ev'[c].format, ev'[c].args)]_vars

\* C20, its case: a line was emitted, the date-only format was set, and a
\* line emitted in a later second carries the date
C20_FirstLineInNewFormat ==
  \E c \in Callers :
    /\ Emitted(c) /\ ev[c].id > 1
    /\ now > Epoch /\ timeKey = now
    /\ timeFormat = "day" /\ ev[c].ts = Format(now, "day")

\* C20 as stated: after SetTimeFormat(f) the next line carries the current
\* time in the format f, whatever was emitted before the call.
C20_NextLineInNewFormat ==
  [][\A c \in Callers :
       ev[c].op = "settimeformat" /\ Stamps(c) =>
         ev'[c].line = msgfLine(ev'[c].level, Format(now, timeFormat),
                                ev'[c].format, ev'[c].args)]_vars

-----------------------------------------------------------------------------
(* The layout of a written line (under SpecLog).                           *)

\* C23: every payload handed to a destination is, in this order, the colour
\* of the level, its padded label, the colour reset, one space, the
\* timestamp, ": ", the message body and one newline; the emission enters
\* the fan-out once, so no destination gets more than one payload of it and
\* each gets the payload whole.
C23_PayloadLayout ==
  \A c \in Callers :
    Emitted(c) /\ ev[c].id > 0 =>
      /\ Len(ev[c].wrote) <= Len(ev[c].mw.writers)
      /\ \A i \in DOMAIN ev[c].wrote :
            ev[c].wrote[i].data =
              levelColors(ev[c].level) \o PaddedString(ev[c].level) \o colorReset
                \o " " \o ev[c].ts \o ": "
                \o msgfBody(ev[c].format, ev[c].args) \o "\n"

\* C23, its case: a WARN line (yellow) has reached a destination
C23_YellowLineWritten ==
  \E c \in Callers :
    /\ FannedOut(c) /\ ev[c].fin /\ ev[c].level = WARN
    /\ \E i \in DOMAIN ev[c].wrote :
          ev[c].wrote[i].data =
            "\\033[33m[WARN] \\033[0m " \o ev[c].ts \o ": plain\n"

-----------------------------------------------------------------------------
(* The identities of the records (under SpecCap).                          *)

\* C29: the records of the registry have pairwise different identities,
\* also when one callback is registered more than once.
C29_RecordIdentitiesDiffer ==
  \A i, j \in DOMAIN hooks : i # j => hooks[i].id # hooks[j].id

-----------------------------------------------------------------------------
(* The buffers of the emissions: "c1" registers a hook that does not fail  *)
(* and emits short, long and very long messages, a long one also at FATAL  *)
(* and PANIC; the workers run the dispatch jobs.                           *)

RECURSIVE Rep(_, _)
\* strings.Repeat(s, n)
Rep(s, n) ==
  IF n = 0 THEN ""
  ELSE IF n % 2 = 1 THEN s \o Rep(s, n - 1)
       ELSE LET half == Rep(s, n \div 2) IN half \o half

\* the message whose format string is longer than bufSize
LongMessage == [format |-> <<Rep("x", bufSize + 76)>>, args |-> <<>>]

\* the messages: a short one, a format string longer than bufSize, one
\* longer than four times bufSize, and a short format with a long and with
\* a very long argument
BufMessages ==
  { [format |-> <<"plain">>, args |-> <<>>],
    LongMessage,
    [format |-> <<Rep("x", bufSize * 4 + 904)>>, args |-> <<>>],
    [format |-> <<"%s">>, args |-> <<[kind |-> "string", text |-> Rep("y", bufSize * 2)]>>],
    [format |-> <<"%s">>, args |-> <<[kind |-> "string", text |-> Rep("y", bufSize * 4 + 904)]>>] }

NextBuf ==
  \/ AddOkHook
  \/ \E lv \in {DEBUG, INFO} : \E m \in BufMessages : Emit("c1", lv, m.format, m.args)
  \/ \E lv \in {FATAL, PANIC} : Emit("c1", lv, LongMessage.format, LongMessage.args)
  \/ writeLock("c1") \/ writeOne("c1") \/ writeDone("c1")
  \/ executeHooks("c1") \/ submit("c1") \/ sendJob("c1")
  \/ FatalStep("c1")
  \/ \E w \in Workers : RunWorker(w) \/ workerExit(w)

SpecBuf == Init /\ [][NextBuf]_vars

\* an emission that has returned, or that a panic has unwound
Left(c) ==
  /\ Emitted(c) /\ ev[c].id > 0
  /\ ev[c].fin \/ ev[c].term = "panic" \/ ev[c].disp = "panic"

\* C24: when an emission has returned (or a panic has unwound it), every
\* buffer it obtained, the lease and the replacement of the resize step,
\* has been released exactly once, and nothing else has been released.
C24_EveryBufferReleasedOnce ==
  \A c \in Callers :
    Left(c) =>
      /\ \A b \in obtained(ev[c]) :
            Cardinality({i \in DOMAIN ev[c].put : ev[c].put[i] = b}) = 1
      /\ \A i \in DOMAIN ev[c].put : ev[c].put[i] \in obtained(ev[c])

\* C25: no buffer in the pool has a capacity above four times bufSize.
C25_PoolHoldsNoLargeBuffer ==
  \A k \in BagToSet(pool) : k <= 4 * bufSize

\* C25, its case: a lease that has grown above the threshold went through
\* putBuffer when its emission returned, while the pool holds a buffer that
\* has grown below the threshold
C25_GrownLeaseDiscarded ==
  \E c \in Callers :
    /\ Emitted(c) /\ ev[c].fin
    /\ ev[c].lease > 4 * bufSize
    /\ ev[c].put = <<"lease">>
    /\ \E k \in BagToSet(pool) : k > bufSize

\* C26: the replacement buffer that the resize step obtains has a capacity
\* of at least the estimated size.
C26_ReplacementHoldsEstimate ==
  \A c \in Callers :
    Emitted(c) /\ ev[c].got > 0 => ev[c].got >= ev[c].est

\* C30: a call of a level method with a level below the threshold changes
\* nothing: no buffer is obtained and the pool is as before, the time cache
\* is as before and no timestamp was obtained, nothing is written, no job
\* is submitted, the counter of the wait group and every other field of
\* the logger and its worker pool are as before, and the call has returned.
C30_DroppedEmissionChangesNothing ==
  [][\A c \in Callers :
       pc[c] = "idle" /\ ev'[c] # ev[c] /\ ev'[c].op = "emit"
         /\ ev'[c].level < level =>
           /\ pool' = pool /\ obtained(ev'[c]) = {}
           /\ timeKey' = timeKey /\ timeValue' = timeValue
           /\ lastCleanup' = lastCleanup /\ ev'[c].ts = ""
           /\ ev'[c].wrote = <<>> /\ ev'[c].line = ""
           /\ jobs' = jobs /\ jobState' = jobState /\ wg' = wg
           /\ level' = level /\ output' = output /\ timeFormat' = timeFormat
           /\ hooks' = hooks /\ mu' = mu /\ stopped' = stopped
           /\ nemit' = nemit /\ calls' = calls
           /\ pc'[c] = "idle" /\ ev'[c].fin]_vars

\* C30, its case: a DEBUG message was dropped on a logger with a
\* registered hook, a buffer in its pool and a line written before
C30_DroppedWithHookAndPool ==
  \E c \in Callers :
    /\ Emitted(c) /\ ev[c].res = "dropped" /\ ev[c].level = DEBUG
    /\ hooks # <<>> /\ pool # EmptyBag /\ nemit > 0

-----------------------------------------------------------------------------
(* The time cache under concurrent emissions: getFormattedTime takes no    *)
(* lock, so its reads and writes of l.timeKey and l.timeValue interleave   *)
(* with those of another emission.  Two callers emit while the clock       *)
(* ticks.                                                                  *)

\* the level method up to msgf's call of getFormattedTime: the gate of
\* newEvent and the lease
newEvent(c, lv, format, args) ==
  /\ Running /\ pc[c] = "idle"
  /\ IF newEventDrops(lv, level)
     THEN /\ ev' = [ev EXCEPT ![c] =
                      [NoCall EXCEPT !.op = "emit", !.level = lv, !.thr = level,
                                     !.format = format, !.args = args,
                                     !.res = "dropped", !.fin = TRUE]]
          /\ UNCHANGED <<pc, nemit, pool>>
     ELSE /\ nemit < MaxEmits
          /\ nemit' = nemit + 1
          /\ \E b \in getBuffer(pool, bufSize) :
               /\ ev' = [ev EXCEPT ![c] =
                           [NoCall EXCEPT !.op = "emit", !.id = nemit + 1,
                                          !.level = lv, !.thr = level,
                                          !.format = format, !.args = args,
                                          !.stale = Failed, !.lease = b.cap]]
               /\ pool' = b.pool
          /\ pc' = [pc EXCEPT ![c] = "time"]
  /\ UNCHANGED <<logVars, hookVars, poolVars, now, halted, histVars>>

\* getFormattedTime: now := time.Now(); key := now.Unix(), and the read of
\* l.timeKey in `if key == l.timeKey`
timeNow(c) ==
  /\ Running /\ pc[c] = "time"
  /\ ev' = [ev EXCEPT ![c].sec = now]
  /\ pc' = [pc EXCEPT ![c] = IF now = timeKey THEN "hit" ELSE "miss"]
  /\ UNCHANGED <<nemit, logVars, hookVars, poolVars, now, halted, pool, histVars>>

\* msgf goes on with the timestamp it got: the resize step and the appends
timeReturn(c, e) ==
  /\ \E o \in msgfBuild(e, pool) :
       /\ ev' = [ev EXCEPT ![c] = o.ev]
       /\ pool' = o.pool
  /\ pc' = [pc EXCEPT ![c] = "lock"]

\* getFormattedTime: `return l.timeValue`, the read of l.timeValue
timeHit(c) ==
  /\ Running /\ pc[c] = "hit"
  /\ timeReturn(c, [ev[c] EXCEPT !.ts = timeValue])
  /\ UNCHANGED <<nemit, logVars, hookVars, poolVars, now, halted, histVars>>

\* getFormattedTime: formatted := now.Format(l.timeFormat); l.timeKey = key
timeStoreKey(c) ==
  /\ Running /\ pc[c] = "miss"
  /\ ev' = [ev EXCEPT ![c].ts = Format(ev[c].sec, timeFormat)]
  /\ timeKey' = ev[c].sec
  /\ pc' = [pc EXCEPT ![c] = "store"]
  /\ UNCHANGED <<level, output, timeFormat, timeValue, lastCleanup>>
  /\ UNCHANGED <<nemit, hookVars, poolVars, now, halted, pool, histVars>>

\* getFormattedTime: l.timeValue = formatted; l.cleanupTimeCache();
\* return formatted
timeStoreValue(c) ==
  /\ Running /\ pc[c] = "store"
  /\ timeValue' = ev[c].ts
  /\ lastCleanup' = IF now - lastCleanup < cleanupPeriod THEN lastCleanup ELSE now
  /\ timeReturn(c, ev[c])
  /\ UNCHANGED <<level, output, timeFormat, timeKey>>
  /\ UNCHANGED <<nemit, hookVars, poolVars, now, halted, histVars>>

\* the steps of getFormattedTime
timeStep(c) == timeNow(c) \/ timeHit(c) \/ timeStoreKey(c) \/ timeStoreValue(c)

NextStamp ==
  \/ Tick
  \/ \E c \in Callers : newEvent(c, INFO, PlainMessage.format, PlainMessage.args)
  \/ \E c \in Callers : timeStep(c)
  \/ \E c \in Callers : OutStep(c)

SpecStamp == Init /\ [][NextStamp]_vars

\* an emission that has its timestamp
Stamped(c) ==
  /\ Emitted(c) /\ ev[c].id > 0
  /\ pc[c] \notin {"time", "hit", "miss", "store"}

\* C21: two emissions whose clock readings are of the same second carry
\* the same timestamp string.
C21_SameSecondSameTimestamp ==
  \A c, d \in Callers :
    Stamped(c) /\ Stamped(d) /\ ev[c].sec = ev[d].sec => ev[c].ts = ev[d].ts

\* C22: the timestamp an emission got from getFormattedTime was formatted
\* from a clock reading of the second in which the emission read the clock.
C22_TimestampOfOwnSecond ==
  \A c \in Callers :
    Stamped(c) => \E t \in Epoch .. Epoch + MaxTicks :
                    t = ev[c].sec /\ ev[c].ts = Format(t, timeFormat)

-----------------------------------------------------------------------------
(* The registry under concurrent dispatch passes.  The job reads l.hooks   *)
(* twice and without l.mu: in make([]Hook, len(l.hooks)) and in            *)
(* copy(hooks, l.hooks); AddHook and removeHook of other goroutines run    *)
(* between the two.  "c1" registers each callback once, two callers emit,  *)
(* the workers run the passes.                                             *)

\* workerPool.worker: case job, ok := <-p.jobs with a job in the channel;
\* the job starts: hooks := make([]Hook, len(l.hooks))
workerMake(w) ==
  /\ Running /\ wpc[w] = "idle"
  /\ jobs # <<>>
  /\ jobs' = Tail(jobs)
  /\ wjob' = [wjob EXCEPT ![w] =
                 [id |-> Head(jobs).id, level |-> Head(jobs).level,
                  msg |-> Head(jobs).msg,
                  snap |-> [i \in 1 .. Len(hooks) |-> zeroHook],
                  reg |-> hooks, idx |-> 0]]
  /\ wpc' = [wpc EXCEPT ![w] = "copy"]
  /\ UNCHANGED <<hooks, mu, wg, stopped, logVars, callVars, now, halted, pool, histVars>>

\* copy(dst, src): the first min(len(dst), len(src)) records of src, the
\* rest of dst as it was
copy(dst, src) ==
  [i \in 1 .. Len(dst) |-> IF i <= Len(src) THEN src[i] ELSE dst[i]]

\* the dispatch job: copy(hooks, l.hooks) and slices.SortFunc
workerCopy(w) ==
  /\ Running /\ wpc[w] = "copy"
  /\ \E snap \in pdqsort(copy(wjob[w].snap, hooks)) :
        IF snap = <<>>
        THEN /\ wg' = wg - 1
             /\ jobState' = [jobState EXCEPT ![wjob[w].id] = "done"]
             /\ wjob' = [wjob EXCEPT ![w] = NoJob]
             /\ wpc' = [wpc EXCEPT ![w] = "idle"]
        ELSE /\ wjob' = [wjob EXCEPT ![w].snap = snap, ![w].idx = 1]
             /\ wpc' = [wpc EXCEPT ![w] = "run"]
             /\ wg' = wg
             /\ jobState' = jobState
  /\ UNCHANGED <<hooks, mu, jobs, stopped, logVars, callVars, now, halted, pool, calls>>

\* the dispatch job: hook.fn(level, msg) on a record whose fn is nil: a
\* nil pointer dereference, the panic ends the process
workerCallNil(w) ==
  /\ Running /\ wpc[w] = "run"
  /\ wjob[w].snap[wjob[w].idx].fn = NilFn
  /\ halted' = "panic"
  /\ UNCHANGED <<logVars, hookVars, poolVars, callVars, now, pool, histVars>>

\* the steps of a dispatch pass
passStep(w) ==
  \/ workerMake(w) \/ workerCopy(w)
  \/ workerCall(w) \/ workerCallNil(w) \/ workerRemove(w)

NextReg ==
  \/ AddHookOnce("c1")
  \/ \E c \in Callers : Emit(c, INFO, PlainMessage.format, PlainMessage.args)
  \/ \E c \in Callers : RunStep(c)
  \/ \E w \in Workers : passStep(w)

SpecReg == Init /\ [][NextReg]_vars

\* the records of a sequence of hooks
records(hs) == {hs[i] : i \in DOMAIN hs}

\* a pass that has its snapshot
Snapshotted(w) == wpc[w] \in {"run", "remove"}

\* C27: the snapshot a pass iterates over holds exactly the hooks that
\* were registered when the pass started, so the pass invokes those and no
\* other record (a hook added later is not among them).
C27_PassInvokesHooksOfItsStart ==
  \A w \in Workers :
    Snapshotted(w) =>
      /\ Len(wjob[w].snap) = Len(wjob[w].reg)
      /\ records(wjob[w].snap) = records(wjob[w].reg)

\* a step that removes the record of a failed callback and nothing else
RemovesFailed ==
  \E w \in Workers :
    /\ wpc[w] = "remove"
    /\ LET h == wjob[w].snap[wjob[w].idx]
       IN /\ h.fn \in Failed
          /\ hooks' = SelectSeq(hooks, LAMBDA r : r.id # h.id)
          /\ Len(hooks') = Len(hooks) - 1

\* a step that appends the record of a callback that was not registered
AppendsNew ==
  \E fn \in Callbacks \ Registered : \E priority \in Priorities :
    hooks' = Append(hooks, newHook(fn, priority))

\* C28: with distinct callbacks, every change of the registry either
\* appends the added hook behind the others or deletes the one record of a
\* hook that has returned an error and keeps the others in their order; no
\* hook is registered twice, and once no pass is about to remove a hook no
\* hook that has returned an error is registered.  So the registry holds
\* the hooks added and never failed, each once, in insertion order.
C28_RegistryIsAddedMinusFailed ==
  /\ [][hooks' # hooks => AppendsNew \/ RemovesFailed]_vars
  /\ [](\A i, j \in DOMAIN hooks : i # j => hooks[i].fn # hooks[j].fn)
  /\ []((\A w \in Workers : wpc[w] # "remove") => Registered \cap Failed = {})

\* C28, its case: "bad" was registered before "ok", has failed in a pass
\* and was removed while "ok" stayed, and a second pass is running
C28_FailedRemovedOtherKept ==
  /\ "bad" \in Failed
  /\ Registered = {"ok"}
  /\ \E w \in Workers : wpc[w] = "run" /\ wjob[w].reg[1].fn = "bad"
  /\ \A w \in Workers : wpc[w] # "remove"

-----------------------------------------------------------------------------
(* A terminal level below the threshold (under SpecLog).                   *)

\* C31: a FATAL call made while the threshold is PANIC is dropped like any
\* gated message: the call returns at once, the process goes on, the pool
\* is not stopped and no termination action is invoked; a termination
\* action is invoked only by an emission that has passed the gate.
C31_GatedFatalDoesNotTerminate ==
  /\ [][\A c \in Callers :
         pc[c] = "idle" /\ ev'[c].op = "emit"
           /\ <<ev'[c].op, ev'[c].level, ev'[c].thr>> # <<ev[c].op, ev[c].level, ev[c].thr>>
           /\ ev'[c].level = FATAL /\ level = PANIC =>
             /\ ev'[c].res = "dropped" /\ ev'[c].term = "none"
             /\ pc'[c] = "idle" /\ ev'[c].fin
             /\ stopped' = stopped /\ halted' = halted /\ wpc' = wpc]_vars
  /\ [](\A c \in Callers :
         Emitted(c) /\ ev[c].term # "none" =>
           ev[c].id > 0 /\ ev[c].level >= ev[c].thr)

\* C31, its case: Fatal was called under the threshold PANIC and has
\* returned, with the process and the pool running
C31_FatalDroppedUnderPanic ==
  \E c \in Callers :
    /\ Emitted(c) /\ ev[c].level = FATAL /\ ev[c].thr = PANIC
    /\ ev[c].res = "dropped" /\ ev[c].fin
    /\ Running /\ ~stopped

-----------------------------------------------------------------------------
(* The message of the hooks and the written body (under SpecRun).          *)

\* C34: for an emission that dispatches hooks, the line written to the
\* destinations is the header, the message handed to the hooks, and the
\* newline: the hooks get the body that was written.
C34_HookMessageIsWrittenBody ==
  \A c \in Callers :
    Emitted(c) /\ ev[c].id > 0 /\ jobState[ev[c].id] # "none" =>
      \A i \in DOMAIN ev[c].wrote :
        ev[c].wrote[i].data = msgfHeader(ev[c].level, ev[c].ts) \o ev[c].msg \o "\n"

-----------------------------------------------------------------------------
(* Two hooks whose priorities lie at the ends of the range of int, one     *)
(* caller, the workers.                                                    *)

EdgePriorities == {MinInt, MinInt + 1, 0 - 2, 0 - 1, 0, 1, 2, MaxInt - 1, MaxInt}

InitCmp ==
  \E p, q \in EdgePriorities : InitWith(<<newHook("h1", p), newHook("h2", q)>>)

SpecCmp == InitCmp /\ [][NextSort]_vars

\* C39: the list a pass walks through is in descending priority for every
\* pair of int priorities, also when their difference does not fit an int.
C39_SnapshotDescendingForAllInts ==
  \A w \in Workers :
    wpc[w] = "run" =>
      \A i, j \in DOMAIN wjob[w].snap :
        i < j => wjob[w].snap[i].priority >= wjob[w].snap[j].priority

-----------------------------------------------------------------------------
(* The counter of the wait group (under SpecHooks).                        *)

\* C35: the counter of l.wg is the number of dispatch jobs that are on
\* their way into the queue, queued, or running.
C35_CounterCountsLiveJobs ==
  wg = Cardinality({c \in Callers : pc[c] \in {"submit", "send"}})
         + Len(jobs)
         + Cardinality({w \in Workers : wpc[w] \in {"run", "remove"}})

-----------------------------------------------------------------------------
(* The queue after the stop (under SpecHooks).                             *)

\* C32: once the pool is stopped no worker takes a job out of the queue:
\* the jobs that were queued at the stop are never started.
C32_QueuedJobsNotStartedAfterStop ==
  [][stopped => jobs' = jobs]_vars

-----------------------------------------------------------------------------
(* A pass after a failed callback (under SpecHooks).                       *)

\* C33: a pass one of whose hooks has returned an error goes on to the
\* remaining hooks of its snapshot: as long as the process runs, a pass that
\* is about to remove the failed hook and has hooks left to invoke is never
\* left with no step of any call or worker to take.
C33_PassGoesOnAfterFailure ==
  \A w \in Workers :
    /\ Running /\ wpc[w] = "remove"
    /\ wjob[w].idx < Len(wjob[w].snap)
    => CanProceed

-----------------------------------------------------------------------------
(* After the stop (under SpecHooks).                                       *)

\* the call of c has stopped the pool (its stop found the pool running) and
\* has returned: a Close, or a FATAL or PANIC emission whose termination
\* action returned
StopperReturned(c) ==
  /\ ev[c].fin
  /\ \/ ev[c].op = "close" /\ ev[c].res = "first"
     \/ ev[c].op = "emit" /\ ev[c].stopper = "first" /\ ev[c].term # "none"

\* C36: when the call that stopped the pool has returned every worker has
\* left, so no callback is running; from then on the workers stay away and
\* no callback is invoked, whatever is registered or emitted afterwards;
\* and an emission on the stopped pool is still written to every writer,
\* its dispatch job being dropped.
C36_NoCallbackAfterStopReturned ==
  /\ [](\A c \in Callers :
         StopperReturned(c) => \A w \in Workers : wpc[w] = "exited")
  /\ [][(\A w \in Workers : wpc[w] = "exited") =>
         calls' = calls /\ wpc' = wpc /\ jobs' = jobs]_vars
  /\ [](\A c \in Callers :
         Emitted(c) /\ ev[c].fin /\ ev[c].disp = "dropped" =>
           /\ Len(ev[c].wrote) = Len(ev[c].mw.writers) /\ ev[c].wrote # <<>>
           /\ calls[ev[c].id] = <<>>)

\* C36, its case: after the Close that stopped the pool had returned a
\* hook was registered and a message emitted: the line is written, the
\* hook was not invoked
C36_WrittenAfterCloseHookNotInvoked ==
  \E c, d \in Callers :
    /\ StopperReturned(d) /\ ev[d].op = "close"
    /\ Emitted(c) /\ ev[c].fin /\ ev[c].id \notin ev[d].before
    /\ ev[c].disp = "dropped" /\ ev[c].wrote # <<>>
    /\ hooks # <<>> /\ calls[ev[c].id] = <<>>

-----------------------------------------------------------------------------
(* A fixed set of destinations: the outputs are set before the first       *)
(* emission, then two callers emit.                                        *)

FanLists == { <<"d1", "bad">>, <<"bad", "stdout", "d1">> }

\* SetOutputs before anything is emitted
FixOutputs == nemit = 0 /\ \E ws \in FanLists : SetOutputs("c1", ws)

NextFan ==
  \/ FixOutputs
  \/ \E c \in Callers : Emit(c, INFO, PlainMessage.format, PlainMessage.args)
  \/ \E c \in Callers : OutStep(c)

SpecFan == Init /\ [][NextFan]_vars

\* the fan-out of c has served some destination and not yet the last one
MidFanOut(c) ==
  /\ pc[c] = "write"
  /\ ev[c].wrote # <<>>
  /\ Len(ev[c].wrote) < Len(ev[c].mw.writers)

\* C37: while the fan-out of one emission is between its first and its
\* last destination no other emission delivers a line (the record of
\* lines another caller has delivered does not grow); so the
\* lines of two emissions reach every destination in the same relative
\* order.
C37_FanOutsDoNotInterleave ==
  [][\A c, d \in Callers :
       c # d /\ MidFanOut(c) => Len(ev'[d].wrote) <= Len(ev[d].wrote)]_vars

\* C37, its case: one caller is between two destinations of its fan-out
\* while the other waits for the mutex with its line
C37_OtherWaitsDuringFanOut ==
  \E c, d \in Callers :
    /\ c # d /\ MidFanOut(c)
    /\ pc[d] = "lock" /\ Emitted(d) /\ ev[d].id > 0

-----------------------------------------------------------------------------
(* The synchronous logger (main.go): Logger.log writes the line and calls  *)
(* the hooks itself, in a loop over l.hooks. The variables level, hooks,   *)
(* pc, ev, nemit, calls and halted stand for this logger's fields and its  *)
(* caller; hooks holds the functions themselves.                           *)

MaxSyncHooks == 3

\* slices.Delete(s, i, j): s without the elements s[i:j] (0-based)
slicesDelete(s, i, j) == SubSeq(s, 1, i) \o SubSeq(s, j + 1, Len(s))

\* a faulty loop that does not step back after a removal
indexKept(i) == i

\* Logger.log: `i--`, the index adjusted after the removal
indexBack(i) == i - 1

\* Logger.AddHook: l.hooks = append(l.hooks, hook)
syncAddHook(c, fn) ==
  /\ Running /\ pc[c] = "idle"
  /\ Len(hooks) < MaxSyncHooks
  /\ hooks' = Append(hooks, fn)
  /\ UNCHANGED <<logVars, mu, wg, poolVars, callVars, now, halted, pool, histVars>>

\* Logger.log below the threshold: `if level < l.level { return }`
syncDropped(c, lv) ==
  /\ Running /\ pc[c] = "idle"
  /\ lv < level
  /\ ev' = [ev EXCEPT ![c] = [NoCall EXCEPT !.op = "log", !.level = lv,
                                           !.thr = level, !.res = "dropped",
                                           !.fin = TRUE]]
  /\ UNCHANGED <<logVars, hookVars, poolVars, pc, nemit, now, halted, pool, histVars>>

\* Logger.log up to the loop: the message is formatted and the line written
\* to l.output; `i := 0`
syncLog(c, lv, format, args) ==
  /\ Running /\ pc[c] = "idle"
  /\ lv >= level
  /\ nemit < MaxEmits
  /\ nemit' = nemit + 1
  /\ LET message == Sprintf(format, args)
     IN ev' = [ev EXCEPT ![c] = [NoCall EXCEPT !.op = "log", !.id = nemit + 1,
                                             !.level = lv, !.thr = level,
                                             !.msg = message,
                                             !.before = hooks,
                                             !.widx = 0,
                                             !.wrote = << <<"line", lv, message>> >>]]
  /\ pc' = [pc EXCEPT ![c] = "synchooks"]
  /\ UNCHANGED <<logVars, hookVars, poolVars, now, halted, pool, histVars>>

\* one turn of `for i := 0; i < len(l.hooks); i++`: l.hooks[i] is called; on
\* an error the "Hook error" line is written, the hook deleted and the
\* index adjusted
syncHook(c) ==
  /\ Running /\ pc[c] = "synchooks"
  /\ LET e == ev[c]
         i == e.widx
     IN /\ i < Len(hooks)
        /\ \E err \in HookResults(hooks[i + 1]) :
             /\ calls' = [calls EXCEPT ![e.id] =
                            Append(@, [fn |-> hooks[i + 1], level |-> e.level,
                                       msg |-> e.msg, err |-> err])]
             /\ IF err
                THEN /\ hooks' = slicesDelete(hooks, i, i + 1)
                     /\ ev' = [ev EXCEPT
                                 ![c].wrote = Append(@, <<"Hook error", hooks[i + 1]>>),
                                 ![c].widx = indexBack(i) + 1]
                ELSE /\ hooks' = hooks
                     /\ ev' = [ev EXCEPT ![c].widx = i + 1]
  /\ UNCHANGED <<logVars, mu, wg, poolVars, pc, nemit, now, halted, pool, jobState>>

\* the loop is over: os.Exit(1) on FATAL, panic(message) on PANIC, or return
syncReturn(c) ==
  /\ Running /\ pc[c] = "synchooks"
  /\ ~(ev[c].widx < Len(hooks))
  /\ pc' = [pc EXCEPT ![c] = "idle"]
  /\ ev' = [ev EXCEPT ![c].fin = TRUE,
                      ![c].term = IF ev[c].level = FATAL THEN "exit"
                                  ELSE IF ev[c].level = PANIC THEN "panic"
                                  ELSE "none"]
  /\ halted' = IF ev[c].level = FATAL THEN "exit"
               ELSE IF ev[c].level = PANIC THEN "panic" ELSE halted
  /\ UNCHANGED <<logVars, hookVars, poolVars, nemit, now, pool, histVars>>

SyncLevels == {DEBUG, INFO, FATAL, PANIC}

NextSync ==
  \/ \E fn \in Callbacks : syncAddHook("c1", fn)
  \/ \E lv \in SyncLevels : syncDropped("c1", lv)
  \/ \E lv \in SyncLevels :
       syncLog("c1", lv, PlainMessage.format, PlainMessage.args)
  \/ syncHook("c1")
  \/ syncReturn("c1")

SpecSync == Init /\ [][NextSync]_vars

\* the hooks of hs whose invocation in ks (same positions) returned no error
RECURSIVE keptOf(_, _)
keptOf(hs, ks) ==
  IF hs = <<>> \/ ks = <<>> THEN <<>>
  ELSE (IF ks[1].err THEN <<>> ELSE <<hs[1]>>) \o keptOf(Tail(hs), Tail(ks))

\* the "Hook error" lines of the invocations ks, in their order
RECURSIVE errorLines(_)
errorLines(ks) ==
  IF ks = <<>> THEN <<>>
  ELSE (IF ks[1].err THEN << <<"Hook error", ks[1].fn>> >> ELSE <<>>)
       \o errorLines(Tail(ks))

\* the emission of c has written its line (its loop is running or over)
SyncEmitted(c) == ev[c].op = "log" /\ ev[c].id > 0

\* C38: in the synchronous logger the hooks registered at the start of an
\* emission are invoked one by one in registration order, each once; the
\* registry is, at every turn of the loop, the hooks invoked so far minus
\* those that returned an error followed by the hooks not yet invoked;
\* the output holds the line and one "Hook error" line per failure; when
\* the loop is over every hook of the start has been invoked and the
\* registry begins with the hooks of the start that returned no error
\* (hooks added later follow them).
C38_SyncHooksEachOnceFailedRemoved ==
  \A c \in Callers :
    SyncEmitted(c) =>
      LET s == ev[c].before
          k == calls[ev[c].id]
          n == Len(k)
      IN /\ n <= Len(s)
         /\ \A j \in 1 .. n :
              /\ k[j].fn = s[j]
              /\ k[j].level = ev[c].level /\ k[j].msg = ev[c].msg
         /\ ev[c].wrote = << <<"line", ev[c].level, ev[c].msg>> >> \o errorLines(k)
         /\ pc[c] = "synchooks" =>
              /\ hooks = keptOf(s, k) \o SubSeq(s, n + 1, Len(s))
              /\ ev[c].widx = Len(keptOf(s, k))
         /\ pc[c] # "synchooks" =>
              /\ n = Len(s)
              /\ Len(hooks) >= Len(keptOf(s, k))
              /\ SubSeq(hooks, 1, Len(keptOf(s, k))) = keptOf(s, k)

\* C38, its case: an emission is over whose first hook failed and was
\* removed and whose later hook was invoked and stays
C38_LaterHookInvokedAfterRemoval ==
  \E c \in Callers :
    /\ SyncEmitted(c) /\ pc[c] = "idle" /\ ev[c].fin
    /\ Len(ev[c].before) = MaxSyncHooks
    /\ Len(calls[ev[c].id]) = MaxSyncHooks
    /\ calls[ev[c].id][1].err /\ calls[ev[c].id][2].err
    /\ ~calls[ev[c].id][3].err
    /\ hooks = <<ev[c].before[3]>>

=============================================================================
